---- MODULE Spec2Model ----
(***************************************************************************)
(* Model of the music sorter: process_files_in_batches and process_file    *)
(* (src/parser.py) and the helpers of src/sound_utils.py.                  *)
(*                                                                         *)
(* Text is modelled as a sequence of one-character strings, so that the    *)
(* sanitizer, the joins and the split are computed character by character. *)
(* A Python value that may be None is a record [has, v]: has = FALSE is    *)
(* None.                                                                   *)
(***************************************************************************)
EXTENDS Integers, Sequences, FiniteSets, TLC

(* ------------------------------ bounds -------------------------------- *)

\* longest file list of a run, and largest batch size
MaxFiles == 2

\* longest input text given to the sanitizer
MaxLen == 3

(* --------------------------- Python values ---------------------------- *)

NoText == [has |-> FALSE, v |-> <<>>]

Some(s) == [has |-> TRUE, v |-> s]

\* bool(x) of an optional text: None and "" are falsy
Truthy(o) == o.has /\ o.v # <<>>

NoInt == [has |-> FALSE, v |-> 0]

\* bool(x) of an optional integer: None and 0 are falsy
TruthyInt(o) == o.has /\ o.v # 0

RECURSIVE Join(_, _)
\* sep.join(parts)
Join(sep, parts) ==
    IF parts = <<>> THEN <<>>
    ELSE IF Len(parts) = 1 THEN parts[1]
    ELSE parts[1] \o sep \o Join(sep, Tail(parts))

RECURSIVE BeforeDash(_)
\* s.split("-")[0]: the text before the first "-"
BeforeDash(s) ==
    IF s = <<>> \/ Head(s) = "-" THEN <<>>
    ELSE <<Head(s)>> \o BeforeDash(Tail(s))

\* the letters that occur in the suffixes of Suffixes
LowerChar(c) ==
    CASE c = "M" -> "m"
      [] c = "P" -> "p"
      [] c = "O" -> "o"
      [] c = "G" -> "g"
      [] c = "F" -> "f"
      [] c = "L" -> "l"
      [] c = "A" -> "a"
      [] c = "C" -> "c"
      [] c = "W" -> "w"
      [] c = "V" -> "v"
      [] c = "T" -> "t"
      [] c = "X" -> "x"
      [] OTHER -> c

\* str.lower()
Lower(s) == [k \in 1..Len(s) |-> LowerChar(s[k])]

(* ------------------- sound_utils.escape_folder_name ------------------- *)

\* the character class of the regular expression
Forbidden == {"<", ">", ":", "\"", "/", "\\", "|", "?", "*", "\n", "\r", "\t"}

\* the characters str.strip() removes
Whitespace == {" ", "\t", "\n", "\r", "\f"}

\* a substitution whose character class has lost the three control characters
ReSubPrintable(name) ==
    [k \in 1..Len(name) |-> IF name[k] \in Forbidden \ {"\n", "\r", "\t"} THEN "_" ELSE name[k]]

\* re.sub(r'[<>:"/\\|?*\n\r\t]', '_', name)
ReSub(name) == [k \in 1..Len(name) |-> IF name[k] \in Forbidden THEN "_" ELSE name[k]]

RECURSIVE LStrip(_)
LStrip(s) == IF s # <<>> /\ Head(s) \in Whitespace THEN LStrip(Tail(s)) ELSE s

RECURSIVE RStrip(_)
RStrip(s) ==
    IF s # <<>> /\ s[Len(s)] \in Whitespace THEN RStrip(SubSeq(s, 1, Len(s) - 1)) ELSE s

\* str.strip()
Strip(s) == RStrip(LStrip(s))

S_unsorted == <<"u", "n", "s", "o", "r", "t", "e", "d">>

\* a sanitizer that trims but has lost its fallback
escape_folder_name_no_fallback(name) == Strip(ReSub(name))

escape_folder_name(name) ==
    LET sanitized_name == ReSub(name)
    IN  IF Strip(sanitized_name) # <<>> THEN Strip(sanitized_name) ELSE S_unsorted

(* ----------------- names bound in the module parser.py ---------------- *)

\* the functions parser.py can call by name: its import of sound_utils
ParserNames == {"generate_fingerprint", "recognize_song_acoustid", "get_musicbrainz_metadata"}

\* evaluating an unbound global name raises NameError
NameError(name) == name \notin ParserNames

(* -------- the names derived from Recording Metadata (parser.py) -------- *)

S_Unknown_Artist == <<"U", "n", "k", "n", "o", "w", "n", " ", "A", "r", "t", "i", "s", "t">>

S_Unknown_Album == <<"U", "n", "k", "n", "o", "w", "n", " ", "A", "l", "b", "u", "m">>

S_Unknown_Year == <<"U", "n", "k", "n", "o", "w", "n", " ", "Y", "e", "a", "r">>

S_Unknown_Song == <<"U", "n", "k", "n", "o", "w", "n", " ", "S", "o", "n", "g">>

\* metadata.get("recording", {})
Recording(metadata) == metadata.recording

RECURSIVE ArtistNames(_)
\* the names of the artist-credit entries that are dicts with an "artist" that has a name
ArtistNames(credits) ==
    IF credits = <<>> THEN <<>>
    ELSE LET c == Head(credits)
         IN  (IF c.is_dict /\ c.has_artist /\ Truthy(c.name) THEN <<c.name.v>> ELSE <<>>)
             \o ArtistNames(Tail(credits))

Artists(metadata) == ArtistNames(Recording(metadata).artist_credit)

RECURSIVE AlbumTitles(_)
AlbumTitles(releases) ==
    IF releases = <<>> THEN <<>>
    ELSE (IF Truthy(Head(releases).title) THEN <<Head(releases).title.v>> ELSE <<>>)
         \o AlbumTitles(Tail(releases))

Albums(metadata) == AlbumTitles(Recording(metadata).release_list)

RECURSIVE ReleaseYears(_)
ReleaseYears(releases) ==
    IF releases = <<>> THEN <<>>
    ELSE (IF Truthy(Head(releases).date) THEN <<BeforeDash(Head(releases).date.v)>> ELSE <<>>)
         \o ReleaseYears(Tail(releases))

Years(metadata) == ReleaseYears(Recording(metadata).release_list)

artist_name_str(metadata) ==
    IF Artists(metadata) # <<>> THEN Join(<<",", " ">>, Artists(metadata)) ELSE S_Unknown_Artist

artist_folder(metadata) ==
    IF Artists(metadata) # <<>> THEN escape_folder_name(Join(<<"&">>, Artists(metadata)))
    ELSE S_Unknown_Artist

song_name(metadata) ==
    IF Recording(metadata).title.has THEN Recording(metadata).title.v ELSE S_Unknown_Song

album_folder(metadata) ==
    IF Albums(metadata) # <<>> THEN escape_folder_name(Join(<<"&">>, Albums(metadata)))
    ELSE S_Unknown_Album

year_folder(metadata) ==
    IF Years(metadata) # <<>> THEN escape_folder_name(Join(<<"&">>, Years(metadata)))
    ELSE S_Unknown_Year

folder_name(ob, metadata) ==
    CASE ob = "artist" -> artist_folder(metadata)
      [] ob = "album" -> album_folder(metadata)
      [] ob = "year" -> year_folder(metadata)
      [] OTHER -> S_unsorted

escaped_file_name(metadata, suffix) ==
    escape_folder_name(artist_name_str(metadata) \o <<" ", "-", " ">> \o song_name(metadata) \o suffix)

\* a destination under output_path: a folder and a file name
destination_file(ob, metadata, suffix) ==
    [folder |-> folder_name(ob, metadata), name |-> escaped_file_name(metadata, suffix)]

\* the first global name the placement code evaluates that is not bound, if any, comes
\* before the folder is created exactly when one of the three lists is non-empty
SanitizerUsedBeforeMkdir(metadata) ==
    Artists(metadata) # <<>> \/ Albums(metadata) # <<>> \/ Years(metadata) # <<>>

(* ------------------------------ inputs -------------------------------- *)

S_mp3 == <<".", "m", "p", "3">>

S_MP3 == <<".", "M", "P", "3">>

S_flac == <<".", "f", "l", "a", "c">>

S_wav == <<".", "w", "a", "v">>

S_ogg == <<".", "o", "g", "g">>

S_txt == <<".", "t", "x", "t">>

\* the list literal of the suffix test
SUPPORTED == {S_mp3, S_flac, S_wav, S_ogg}

\* the candidate paths of a run: what the path is on disk, and its suffix
FileKinds ==
    { [exists |-> TRUE, is_file |-> TRUE, suffix |-> S_mp3],
      [exists |-> TRUE, is_file |-> TRUE, suffix |-> S_MP3],
      [exists |-> TRUE, is_file |-> TRUE, suffix |-> S_txt],
      [exists |-> TRUE, is_file |-> FALSE, suffix |-> S_mp3],
      [exists |-> FALSE, is_file |-> FALSE, suffix |-> S_mp3] }

FileLists == UNION { [1..n -> FileKinds] : n \in 0..MaxFiles }

OrderBy == {"artist", "album", "year"}

\* what generate_fingerprint can return: None, or a pair whose parts may be None
FpOutcomes ==
    { [is_none |-> TRUE, why |-> w, fingerprint |-> NoText, duration |-> NoInt] :
        w \in {"fpcalc not found", "error"} }
    \cup
    { [is_none |-> FALSE, why |-> "", fingerprint |-> f, duration |-> d] :
        f \in {NoText, Some(<<>>), Some(<<"A", "Q">>)},
        d \in {NoInt, [has |-> TRUE, v |-> 0], [has |-> TRUE, v |-> 215]} }

NoFp == [is_none |-> TRUE, why |-> "not run", fingerprint |-> NoText, duration |-> NoInt]

R1 == Some(<<"R", "1">>)

R2 == Some(<<"R", "2">>)

\* the result entries of an acoustic response: without a "recordings" key, with an
\* empty list, with entries that carry an id, lack it or carry an empty one
ResultKinds ==
    { [has_recordings |-> FALSE, recordings |-> <<>>],
      [has_recordings |-> TRUE, recordings |-> <<>>],
      [has_recordings |-> TRUE, recordings |-> <<R1, R2>>],
      [has_recordings |-> TRUE, recordings |-> <<NoText, R2>>],
      [has_recordings |-> TRUE, recordings |-> <<Some(<<>>)>>] }

ResultLists ==
    {<<>>} \cup { <<a>> : a \in ResultKinds } \cup { <<a, b>> : a, b \in ResultKinds }

\* what recognize_song_acoustid can return: None, a dict without "results", or
\* a dict with a list of results
AcoustidOutcomes ==
    { [is_none |-> TRUE, has_results |-> FALSE, results |-> <<>>],
      [is_none |-> FALSE, has_results |-> FALSE, results |-> <<>>] }
    \cup { [is_none |-> FALSE, has_results |-> TRUE, results |-> rs] : rs \in ResultLists }

NoResponse == [is_none |-> TRUE, has_results |-> FALSE, results |-> <<>>]

EmptyRecording == [artist_credit |-> <<>>, title |-> NoText, release_list |-> <<>>]

MetaNone == [is_none |-> TRUE, recording |-> EmptyRecording]

Credit(name) == [is_dict |-> TRUE, has_artist |-> TRUE, name |-> name]

\* an artist-credit entry that is a join phrase, not a dict
JoinPhrase == [is_dict |-> FALSE, has_artist |-> FALSE, name |-> NoText]

S_Alice == <<"A", "l", "i", "c", "e">>

S_Song == <<"S", "o", "n", "g">>

S_Album == <<"A", "l", "b", "u", "m">>

MetaAlice ==
    [is_none |-> FALSE,
     recording |->
       [artist_credit |-> <<Credit(Some(S_Alice))>>,
        title |-> Some(S_Song),
        release_list |->
          <<[title |-> Some(S_Album),
             date |-> Some(<<"2", "0", "2", "0", "-", "0", "5", "-", "0", "1">>)]>>]]

\* a recording with no artist name, no title and no release
MetaBare == [is_none |-> FALSE, recording |-> EmptyRecording]

MetaDuo ==
    [is_none |-> FALSE,
     recording |->
       [artist_credit |-> <<Credit(Some(<<"A", "/", "B">>)), JoinPhrase, Credit(Some(<<"C">>)),
                            Credit(NoText)>>,
        title |-> Some(<<"T", "?">>),
        release_list |->
          <<[title |-> Some(<<" ">>), date |-> NoText],
            [title |-> NoText, date |-> Some(<<"1", "9", "9", "9">>)]>>]]

\* what get_musicbrainz_metadata can return
MbOutcomes == {MetaNone, MetaAlice, MetaBare, MetaDuo}

\* the texts given to the sanitizer
Alphabet == {"a", "_", " ", "\f", "<", "/", "\t", "\n"}

Texts == UNION { [1..n -> Alphabet] : n \in 0..MaxLen }

(* ------------------------------- state -------------------------------- *)

VARIABLES
    files,            \* the argument files: the list of candidate paths
    batch_size,       \* the argument batch_size
    order_by,         \* the argument order_by
    remove_origin,    \* the argument remove_origin
    pc,               \* where the run is
    i,                \* the batch loop's index: the offset of the current batch
    j,                \* the position of the current file within its batch
    fpResult,         \* process_file: what generate_fingerprint returned
    acoustid_result,  \* process_file: what recognize_song_acoustid returned
    r,                \* process_file: the position of the result loop
    metadata,         \* what process_file returned
    fpCalls,          \* per file: the calls of generate_fingerprint made for it
    acCalls,          \* current file: the calls of recognize_song_acoustid
    mbCalls,          \* current file: the ids given to get_musicbrainz_metadata
    mkdirLog,         \* current file: the folders mkdir was called for, and how it ended
    copyLog,          \* current file: the copies attempted, and how each ended
    unlinkLog,        \* current file: the unlink calls, and how each ended
    srcExists,        \* per file: whether the path exists on disk
    copied,           \* per file: whether a copy of it was completed
    dirs,             \* the folders that exist under output_path
    dstFiles,         \* the files that exist under output_path
    progress,         \* the progress lines printed
    executorTasks,    \* the files submitted to the ThreadPoolExecutor as tasks
    uncaught,         \* the exception that left process_files_in_batches, "" if none
    began,            \* the files whose iteration of the file loop began, in that order
    ended,            \* the files whose iteration of the file loop has ended
    san_pc,           \* the sanitizer alone: where it is
    san_name,         \* the sanitizer alone: its argument
    san_out           \* the sanitizer alone: its return value

runVars == <<files, batch_size, order_by, remove_origin, pc, i, j, fpResult, acoustid_result,
             r, metadata, fpCalls, acCalls, mbCalls, mkdirLog, copyLog, unlinkLog, srcExists,
             copied, dirs, dstFiles, progress, executorTasks, uncaught, began, ended>>

sanVars == <<san_pc, san_name, san_out>>

vars == <<runVars, sanVars>>

\* the index in files of the file the loop is at
cur == i + j

\* a slice that is one file too long
batchOneMore ==
    SubSeq(files, i + 1, IF i + batch_size + 1 < Len(files) THEN i + batch_size + 1 ELSE Len(files))

\* files[i : i + batch_size]
batch == SubSeq(files, i + 1, IF i + batch_size < Len(files) THEN i + batch_size ELSE Len(files))

\* file_path.name
FileName(k) == <<"f", ToString(k)>> \o files[k].suffix

(* ------------------------ decisions of the code ----------------------- *)

\* a skip test that forgets to ask whether the path is a regular file
SkipsFileNoTypeTest(f, on_disk) ==
    \/ ~on_disk
    \/ Lower(f.suffix) \notin SUPPORTED

\* the two tests that make the loop skip a path
SkipsFile(f, on_disk) ==
    \/ ~on_disk \/ ~f.is_file
    \/ Lower(f.suffix) \notin SUPPORTED

\* a test that returns only when both parts are falsy
FingerprintUsableEither(out) ==
    /\ ~out.is_none
    /\ ~(~Truthy(out.fingerprint) /\ ~TruthyInt(out.duration))

\* process_file goes on after fingerprinting: the call returned a pair, and
\* neither part is falsy
FingerprintUsable(out) ==
    /\ ~out.is_none
    /\ ~(~Truthy(out.fingerprint) \/ ~TruthyInt(out.duration))

\* a test that takes an empty "recordings" list for a missing one
HasRecordingsNonEmpty(result) == result.has_recordings /\ result.recordings # <<>>

\* "recordings" in result
HasRecordings(result) == result.has_recordings

\* a copy whose unlink failure is not caught where it happens
GoesOnAfterCopyUnlessUnlinkFailed(copyOk, unlinkFailed) == copyOk /\ ~unlinkFailed

\* the unsorted branch goes on to the next result when mkdir and the copy succeeded;
\* a failure of the unlink is caught and printed next to it
GoesOnAfterCopy(copyOk, unlinkFailed) == copyOk

\* the response is truthy and has a "results" key
HasResults(resp) == ~resp.is_none /\ resp.has_results

RECURSIVE LastRecordingId(_)
\* the id a loop that does not stop at the first id would end with
LastRecordingId(recordings) ==
    IF recordings = <<>> THEN NoText
    ELSE IF Truthy(recordings[Len(recordings)]) THEN recordings[Len(recordings)]
    ELSE LastRecordingId(SubSeq(recordings, 1, Len(recordings) - 1))

RECURSIVE FirstRecordingId(_)
\* the inner loop: the first recording whose id is truthy, None if there is none
FirstRecordingId(recordings) ==
    IF recordings = <<>> THEN NoText
    ELSE IF Truthy(Head(recordings)) THEN Head(recordings)
    ELSE FirstRecordingId(Tail(recordings))

\* an unlink that does not look at the flag
UnlinksOriginAlways(flag) == TRUE

\* "if remove_origin:"
UnlinksOrigin(flag) == flag

(* ---------------------- process_files_in_batches ---------------------- *)

SanIdle == san_pc = "idle" /\ san_name = <<>> /\ san_out = <<>>

Init ==
    /\ files \in FileLists
    /\ batch_size \in 1..MaxFiles
    /\ order_by \in OrderBy
    /\ remove_origin \in BOOLEAN
    /\ pc = "batch"
    /\ i = 0
    /\ j = 0
    /\ fpResult = NoFp
    /\ acoustid_result = NoResponse
    /\ r = 0
    /\ metadata = MetaNone
    /\ fpCalls = [k \in 1..Len(files) |-> 0]
    /\ acCalls = 0
    /\ mbCalls = <<>>
    /\ mkdirLog = <<>>
    /\ copyLog = <<>>
    /\ unlinkLog = <<>>
    /\ srcExists = [k \in 1..Len(files) |-> files[k].exists]
    /\ copied = [k \in 1..Len(files) |-> FALSE]
    /\ dirs = {}
    /\ dstFiles = {}
    /\ progress = <<>>
    /\ executorTasks = {}
    /\ uncaught = ""
    /\ began = <<>>
    /\ ended = {}
    /\ SanIdle

params == <<files, batch_size, order_by, remove_origin>>

locals == <<fpResult, acoustid_result, r, metadata>>

callLogs == <<acCalls, mbCalls>>

fsLogs == <<mkdirLog, copyLog, unlinkLog>>

disk == <<srcExists, copied, dirs, dstFiles>>

history == <<began, ended>>

\* the head of the batch loop: the next batch and its progress line, or the end
BatchStart ==
    /\ pc = "batch"
    /\ IF i < Len(files)
       THEN /\ progress' = Append(progress,
                                  [index |-> i \div batch_size + 1,
                                   total |-> Len(files) \div batch_size + 1,
                                   size |-> Len(batch)])
            /\ j' = 1
            /\ pc' = "validate"
       ELSE /\ pc' = "done"
            /\ UNCHANGED <<progress, j>>
    /\ UNCHANGED <<params, i, locals, fpCalls, callLogs, fsLogs, disk, executorTasks, uncaught,
                   history, sanVars>>

\* the two tests at the head of the file loop's body
Validate ==
    /\ pc = "validate"
    /\ pc' = IF SkipsFile(files[cur], srcExists[cur]) THEN "next" ELSE "fingerprint"
    /\ began' = Append(began, cur)
    /\ UNCHANGED <<params, i, j, locals, fpCalls, callLogs, fsLogs, disk, progress,
                   executorTasks, uncaught, ended, sanVars>>

\* process_file up to its first return: the call of generate_fingerprint; a None
\* return fails the tuple assignment, which the handler of process_file catches
Fingerprint ==
    /\ pc = "fingerprint"
    /\ \E out \in FpOutcomes :
         /\ fpResult' = out
         /\ fpCalls' = [fpCalls EXCEPT ![cur] = @ + 1]
         /\ pc' = IF FingerprintUsable(out) THEN "acoustid" ELSE "next"
    /\ UNCHANGED <<params, i, j, acoustid_result, r, metadata, callLogs, fsLogs, disk,
                   progress, executorTasks, uncaught, history, sanVars>>

\* the call of recognize_song_acoustid and the test of its response
Acoustid ==
    /\ pc = "acoustid"
    /\ \E resp \in AcoustidOutcomes :
         /\ acoustid_result' = resp
         /\ acCalls' = acCalls + 1
         /\ IF HasResults(resp)
            THEN r' = 1 /\ pc' = "results"
            ELSE r' = r /\ pc' = "next"
    /\ UNCHANGED <<params, i, j, fpResult, metadata, fpCalls, mbCalls, fsLogs, disk, progress,
                   executorTasks, uncaught, history, sanVars>>

\* the loop over the results is exhausted: process_file returns None
ResultsEnd ==
    /\ pc = "results"
    /\ r > Len(acoustid_result.results)
    /\ pc' = "next"
    /\ UNCHANGED <<params, i, j, locals, fpCalls, callLogs, fsLogs, disk, progress,
                   executorTasks, uncaught, history, sanVars>>

\* a result with a "recordings" key: the catalog lookup for its first id, whose
\* return value process_file returns, or the next result if no recording has an id
ResultWithRecordings ==
    /\ pc = "results"
    /\ r <= Len(acoustid_result.results)
    /\ HasRecordings(acoustid_result.results[r])
    /\ LET recording_id == FirstRecordingId(acoustid_result.results[r].recordings)
       IN  IF Truthy(recording_id)
           THEN /\ mbCalls' = Append(mbCalls, recording_id.v)
                /\ \E m \in MbOutcomes :
                     /\ metadata' = m
                     /\ pc' = IF m.is_none THEN "next" ELSE "place"
                /\ r' = r
           ELSE /\ r' = r + 1
                /\ UNCHANGED <<mbCalls, metadata, pc>>
    /\ UNCHANGED <<params, i, j, fpResult, acoustid_result, fpCalls, acCalls, fsLogs, disk,
                   progress, executorTasks, uncaught, history, sanVars>>

\* a result without a "recordings" key: the unsorted folder is created, the file is
\* copied into it and, with remove_origin, the original is unlinked; a failure of
\* mkdir or of the copy is caught by the handler of process_file, which returns None
ResultWithoutRecordings ==
    /\ pc = "results"
    /\ r <= Len(acoustid_result.results)
    /\ ~HasRecordings(acoustid_result.results[r])
    /\ \E mkdirFails \in BOOLEAN, copyFails \in BOOLEAN, unlinkFails \in BOOLEAN :
         LET mkdirOk == ~mkdirFails
             destination == [folder |-> S_unsorted, name |-> FileName(cur)]
             copyOk == mkdirOk /\ ~copyFails /\ srcExists[cur]
             unlinks == copyOk /\ UnlinksOrigin(remove_origin)
             unlinkOk == unlinks /\ ~unlinkFails
         IN  /\ mkdirLog' = Append(mkdirLog, [folder |-> S_unsorted, ok |-> mkdirOk])
             /\ dirs' = IF mkdirOk THEN dirs \cup {S_unsorted} ELSE dirs
             /\ copyLog' = IF mkdirOk
                           THEN Append(copyLog, [to |-> destination, ok |-> copyOk])
                           ELSE copyLog
             /\ dstFiles' = IF copyOk THEN dstFiles \cup {destination} ELSE dstFiles
             /\ copied' = IF copyOk THEN [copied EXCEPT ![cur] = TRUE] ELSE copied
             /\ unlinkLog' = IF unlinks THEN Append(unlinkLog, unlinkOk) ELSE unlinkLog
             /\ srcExists' = IF unlinkOk THEN [srcExists EXCEPT ![cur] = FALSE] ELSE srcExists
             /\ IF GoesOnAfterCopy(copyOk, unlinks /\ ~unlinkOk)
                THEN r' = r + 1 /\ pc' = "results"
                ELSE r' = r /\ pc' = "next"
    /\ UNCHANGED <<params, i, j, fpResult, acoustid_result, metadata, fpCalls, callLogs,
                   progress, executorTasks, uncaught, history, sanVars>>

\* the body of "if metadata:": the names are derived, the folder is created, the file
\* is copied and, with remove_origin, the original is unlinked. No handler encloses
\* it: a NameError for the sanitizer, a failed mkdir or a failed copy ends the run
Place ==
    /\ pc = "place"
    /\ \E mkdirFails \in BOOLEAN, copyFails \in BOOLEAN, unlinkFails \in BOOLEAN :
         LET mkdirOk == ~mkdirFails
             suffix == files[cur].suffix
             unbound == NameError("escape_folder_name")
             reachesMkdir == ~(unbound /\ SanitizerUsedBeforeMkdir(metadata))
             folder == folder_name(order_by, metadata)
             reachesCopy == reachesMkdir /\ mkdirOk /\ ~unbound
             destination == destination_file(order_by, metadata, suffix)
             copyOk == reachesCopy /\ ~copyFails /\ srcExists[cur]
             unlinks == copyOk /\ UnlinksOrigin(remove_origin)
             unlinkOk == unlinks /\ ~unlinkFails
         IN  /\ mkdirLog' = IF reachesMkdir
                            THEN Append(mkdirLog, [folder |-> folder, ok |-> mkdirOk])
                            ELSE mkdirLog
             /\ dirs' = IF reachesMkdir /\ mkdirOk THEN dirs \cup {folder} ELSE dirs
             /\ copyLog' = IF reachesCopy
                           THEN Append(copyLog, [to |-> destination, ok |-> copyOk])
                           ELSE copyLog
             /\ dstFiles' = IF copyOk THEN dstFiles \cup {destination} ELSE dstFiles
             /\ copied' = IF copyOk THEN [copied EXCEPT ![cur] = TRUE] ELSE copied
             /\ unlinkLog' = IF unlinks THEN Append(unlinkLog, unlinkOk) ELSE unlinkLog
             /\ srcExists' = IF unlinkOk THEN [srcExists EXCEPT ![cur] = FALSE] ELSE srcExists
             /\ pc' = IF copyOk THEN "next" ELSE "aborted"
             /\ uncaught' = IF ~reachesMkdir THEN "NameError"
                             ELSE IF ~mkdirOk THEN "OSError"
                             ELSE IF unbound THEN "NameError"
                             ELSE IF ~copyOk THEN "OSError"
                             ELSE ""
    /\ UNCHANGED <<params, i, j, locals, fpCalls, callLogs, progress, executorTasks, history,
                   sanVars>>

\* the file loop and the batch loop advance; the locals of the iteration are gone
NextFile ==
    /\ pc = "next"
    /\ IF j < Len(batch)
       THEN j' = j + 1 /\ i' = i /\ pc' = "validate"
       ELSE j' = 0 /\ i' = i + batch_size /\ pc' = "batch"
    /\ fpResult' = NoFp
    /\ acoustid_result' = NoResponse
    /\ r' = 0
    /\ metadata' = MetaNone
    /\ acCalls' = 0
    /\ mbCalls' = <<>>
    /\ mkdirLog' = <<>>
    /\ copyLog' = <<>>
    /\ unlinkLog' = <<>>
    /\ ended' = ended \cup {cur}
    /\ UNCHANGED <<params, fpCalls, disk, progress, executorTasks, uncaught, began, sanVars>>

Next ==
    \/ BatchStart
    \/ Validate
    \/ Fingerprint
    \/ Acoustid
    \/ ResultsEnd
    \/ ResultWithRecordings
    \/ ResultWithoutRecordings
    \/ Place
    \/ NextFile

Spec == Init /\ [][Next]_vars

(* ------------------------ the sanitizer alone ------------------------- *)

InitSan ==
    /\ files = <<>>
    /\ batch_size = 1
    /\ order_by = "artist"
    /\ remove_origin = FALSE
    /\ pc = "done"
    /\ i = 0
    /\ j = 0
    /\ fpResult = NoFp
    /\ acoustid_result = NoResponse
    /\ r = 0
    /\ metadata = MetaNone
    /\ fpCalls = <<>>
    /\ acCalls = 0
    /\ mbCalls = <<>>
    /\ mkdirLog = <<>>
    /\ copyLog = <<>>
    /\ unlinkLog = <<>>
    /\ srcExists = <<>>
    /\ copied = <<>>
    /\ dirs = {}
    /\ dstFiles = {}
    /\ progress = <<>>
    /\ executorTasks = {}
    /\ uncaught = ""
    /\ began = <<>>
    /\ ended = {}
    /\ san_pc = "called"
    /\ san_name \in Texts
    /\ san_out = <<>>

\* one call of escape_folder_name
Sanitize ==
    /\ san_pc = "called"
    /\ san_out' = escape_folder_name(san_name)
    /\ san_pc' = "returned"
    /\ UNCHANGED <<runVars, san_name>>

NextSan == Sanitize

SpecSan == InitSan /\ [][NextSan]_vars

(* ------------------------------- claims ------------------------------- *)

\* the list index k names a path that the loop must process
ValidFile(k) ==
    /\ files[k].exists
    /\ files[k].is_file
    /\ Lower(files[k].suffix) \in {S_mp3, S_flac, S_wav, S_ogg}

\* the loop is inside the body of the iteration for files[cur]
InFile == j >= 1 /\ pc \in {"validate", "fingerprint", "acoustid", "results", "place", "next", "aborted"}

\* the iteration for files[cur] has ended, normally or by an exception that left the run
FileEnded == j >= 1 /\ pc \in {"next", "aborted"}

NoSideEffectLogged ==
    /\ acCalls = 0
    /\ mbCalls = <<>>
    /\ mkdirLog = <<>>
    /\ copyLog = <<>>
    /\ unlinkLog = <<>>

\* C1: no failure while handling one file aborts the run, so the run never
\* ends by an exception and every file of the list reaches a terminal outcome.
C1_NoFileAbortsRun == pc # "aborted"

\* C2: once the iteration of a file for which metadata was returned has ended,
\* the file has been copied to <folder of order_by>/<sanitized "artists - title.ext">.
C2_IdentifiedFileCopied ==
    (FileEnded /\ ~metadata.is_none)
        => \E k \in 1..Len(copyLog) :
              /\ copyLog[k].to = destination_file(order_by, metadata, files[cur].suffix)
              /\ copyLog[k].ok

\* C3: when the run has ended, generate_fingerprint has been called exactly once
\* for every valid file of the list and never for any other file.
C3_FingerprintOncePerValidFile ==
    pc \in {"done", "aborted"}
        => \A k \in 1..Len(files) : fpCalls[k] = IF ValidFile(k) THEN 1 ELSE 0

\* the positions of the results of a response that carry a recording identifier
IdResults(resp) ==
    { k \in 1..Len(resp.results) :
        /\ resp.results[k].has_recordings
        /\ \E n \in 1..Len(resp.results[k].recordings) : Truthy(resp.results[k].recordings[n]) }

\* the first recording identifier of the first result that carries one
FirstIdOfResponse(resp) ==
    LET k == CHOOSE x \in IdResults(resp) : \A y \in IdResults(resp) : x <= y
        recs == resp.results[k].recordings
        n == CHOOSE x \in 1..Len(recs) :
                 Truthy(recs[x]) /\ \A y \in 1..(x - 1) : ~Truthy(recs[y])
    IN  recs[n].v

\* C4: if the response has a result with a recording identifier, the catalog is
\* asked at most once for the file, and only for the first identifier of the
\* first such result, also after the catalog lookup has failed.
C4_StageTwoFirstIdOnly ==
    (InFile /\ HasResults(acoustid_result) /\ IdResults(acoustid_result) # {})
        => /\ Len(mbCalls) <= 1
           /\ \A k \in 1..Len(mbCalls) : mbCalls[k] = FirstIdOfResponse(acoustid_result)

C4_Witness ==
    /\ pc = "next"
    /\ metadata.is_none
    /\ Cardinality(IdResults(acoustid_result)) = 2
    /\ acoustid_result.results[1].recordings = <<NoText, R2>>
    /\ mbCalls = <<R2.v>>

\* the result at position k has zero recording entries: no list, or an empty one
ZeroRecordings(k) ==
    \/ ~acoustid_result.results[k].has_recordings
    \/ acoustid_result.results[k].recordings = <<>>

\* C5: once the result loop of process_file has handled a result with zero recording
\* entries (no list, or an empty list), the unsorted folder has been created, the
\* file copied to unsorted/<its name>, and the original is still there unless
\* remove_origin is set.
C5_ZeroRecordingsGoesUnsorted ==
    (InFile /\ HasResults(acoustid_result)
       /\ \E k \in 1..Len(acoustid_result.results) : k < r /\ ZeroRecordings(k))
        => /\ \E k \in 1..Len(mkdirLog) : mkdirLog[k].folder = S_unsorted
           /\ \E n \in 1..Len(copyLog) :
                 /\ copyLog[n].to = [folder |-> S_unsorted, name |-> FileName(cur)]
                 /\ copyLog[n].ok
           /\ ~remove_origin => srcExists[cur]

\* generate_fingerprint was run for the current file and failed: the tool is absent,
\* it ended in an error, or it gave no fingerprint or no duration
FingerprintFailed ==
    /\ fpResult.why # "not run"
    /\ \/ fpResult.is_none
       \/ ~fpResult.fingerprint.has
       \/ ~fpResult.duration.has

\* C6: after a failed fingerprinting no lookup is made for the file, nothing is
\* created, copied or unlinked, the original is still on disk, and process_file
\* has returned to the loop, which goes on to the next file.
C6_FingerprintFailureLeavesFileAlone ==
    FingerprintFailed
        => /\ NoSideEffectLogged
           /\ srcExists[cur]
           /\ ~copied[cur]
           /\ fpCalls[cur] = 1
           /\ pc = "next"
           /\ ENABLED NextFile

C6_Witness ==
    /\ fpResult.is_none
    /\ fpResult.why = "fpcalc not found"
    /\ remove_origin
    /\ pc = "next"
    /\ cur < Len(files)

\* the files the pipeline has deleted
Deleted(k) == files[k].exists /\ ~srcExists[k]

OkCopies == { k \in 1..Len(copyLog) : copyLog[k].ok }

\* C7, in every state: a deleted source implies remove_origin and a completed copy of
\* that file; a failed copy is the last thing done for its file; there are no more
\* unlink calls than completed copies.
C7_State ==
    /\ \A k \in 1..Len(files) : Deleted(k) => remove_origin /\ copied[k]
    /\ \A k \in 1..Len(copyLog) : ~copyLog[k].ok => k = Len(copyLog)
    /\ Len(unlinkLog) <= Cardinality(OkCopies)
    /\ ~remove_origin => unlinkLog = <<>>

\* C7, in every step: a source is deleted only by a step that has remove_origin set
\* and that completes a copy of that source before the unlink.
C7_Step ==
    \A k \in 1..Len(files) :
        (srcExists[k] /\ ~srcExists'[k])
            => /\ remove_origin
               /\ k = cur
               /\ Len(copyLog') = Len(copyLog) + 1
               /\ copyLog'[Len(copyLog')].ok
               /\ copied'[k]

\* C7: a source file is deleted only with remove_origin set and after a completed
\* copy of it; without remove_origin nothing is deleted, and no deletion follows a
\* failed copy.
C7_DeleteOnlyAfterCopy == []C7_State /\ [][C7_Step]_vars

C7_Witness ==
    \E k \in 1..Len(files) : Deleted(k) /\ copied[k] /\ unlinkLog # <<>> /\ pc = "next"

\* the list index k names a path that is missing, not a regular file, or of an
\* unsupported suffix
InvalidFile(k) ==
    \/ ~files[k].exists
    \/ ~files[k].is_file
    \/ Lower(files[k].suffix) \notin {S_mp3, S_flac, S_wav, S_ogg}

\* C8, in every state: nothing was ever done for an invalid file.
C8_State ==
    \A k \in 1..Len(files) :
        InvalidFile(k)
            => /\ fpCalls[k] = 0
               /\ ~copied[k]
               /\ srcExists[k] = files[k].exists
               /\ (InFile /\ k = cur) => NoSideEffectLogged /\ pc \in {"validate", "next"}

\* C8, in every step: the iteration of an invalid file changes nothing but the
\* position of the loop, which goes on to the next file.
C8_Step ==
    (InFile /\ InvalidFile(cur))
        => /\ UNCHANGED <<fpCalls, callLogs, fsLogs, disk, progress, locals>>
           /\ pc = "validate" => pc' = "next"
           /\ pc = "next" => \/ pc' = "validate" /\ j' = j + 1
                             \/ pc' = "batch" /\ i' = i + batch_size

\* C8: an invalid file is skipped with no side effect and the run continues.
C8_InvalidFileSkipped == []C8_State /\ [][C8_Step]_vars

C8_Witness ==
    /\ pc = "validate"
    /\ cur = 2
    /\ files[1] = [exists |-> TRUE, is_file |-> TRUE, suffix |-> S_txt]
    /\ files[2].suffix = S_MP3
    /\ dirs = {}

AllIn(s, chars) == \A k \in 1..Len(s) : s[k] \in chars

\* C9 as stated: "unsorted" for every input made only of forbidden characters and
\* for every input made only of whitespace, the empty text included.
C9_AllForbiddenOrBlankIsUnsorted ==
    (san_pc = "returned" /\ (AllIn(san_name, Forbidden) \/ AllIn(san_name, Whitespace)))
        => san_out = S_unsorted

\* C9 as amended: "unsorted" for every input made only of whitespace that is not
\* forbidden, the empty text included; a non-empty input made only of forbidden
\* characters gives one "_" for each of them.
C9_BlankIsUnsortedForbiddenIsUnderscores ==
    san_pc = "returned"
        => /\ AllIn(san_name, Whitespace \ Forbidden) => san_out = S_unsorted
           /\ (san_name # <<>> /\ AllIn(san_name, Forbidden))
                 => san_out = [k \in 1..Len(san_name) |-> "_"]

C9_Witness ==
    /\ san_pc = "returned"
    /\ san_name = <<" ", "\f">>
    /\ san_out = S_unsorted

\* C10: a file whose identification or placement is in progress is running as a
\* task of its own that was submitted to the worker pool.
C10_EachFileIsAPoolTask ==
    (j >= 1 /\ pc \in {"fingerprint", "acoustid", "results", "place"})
        => cur \in executorTasks

\* the batch a file of the list belongs to when the list is cut into consecutive
\* slices of batch_size files, counted from 1
BatchOf(k) == (k - 1) \div batch_size + 1

Began(k) == \E n \in 1..Len(began) : began[n] = k

\* C11, in every state: a file whose iteration has begun belongs to a batch whose
\* progress line is printed, and once the progress line of a batch is printed every
\* file of every earlier batch has ended.
C11_State ==
    /\ \A k \in 1..Len(files) : Began(k) => BatchOf(k) <= Len(progress)
    /\ \A m \in 1..Len(files) : BatchOf(m) < Len(progress) => m \in ended
    /\ \A m \in ended : m = cur => ~InFile

\* C11, in every step: nothing is looked up, created, copied or unlinked for a file
\* that has ended.
C11_Step ==
    (cur \in ended) => UNCHANGED <<fpCalls, callLogs, fsLogs, disk>>

\* C11: batches are strictly sequential: every file of batch N has ended, with all
\* its lookups, copies and deletions, before the progress line of batch N+1 is
\* printed and before any file of batch N+1 is validated or fingerprinted.
C11_BatchesSequential == []C11_State /\ [][C11_Step]_vars

C11_Witness ==
    /\ batch_size = 1
    /\ Len(progress) = 2
    /\ pc = "fingerprint"
    /\ cur = 2
    /\ copied[1]
    /\ ended = {1}

\* the number of batches a list of n files has
NumBatches(n) == (n + batch_size - 1) \div batch_size

\* C12: when the run has ended normally, one progress line was printed per batch,
\* each reports as total the number of batches processed, and the size it reports is
\* the number of files of its batch.
C12_ProgressLines ==
    pc = "done"
        => /\ Len(progress) = NumBatches(Len(files))
           /\ \A b \in 1..Len(progress) :
                 /\ progress[b].index = b
                 /\ progress[b].total = Len(progress)
                 /\ progress[b].size = Cardinality({ k \in 1..Len(files) : BatchOf(k) = b })

\* C13, in every state: the files are considered once each in list order; the file
\* being considered lies in the batch whose progress line was printed last; every
\* batch has batch_size files, but the last, which has between 1 and batch_size; and
\* a run that ends normally has considered the whole list.
C13_ConsecutiveSlices ==
    /\ \A n \in 1..Len(began) : began[n] = n
    /\ \A n \in 1..Len(began) : BatchOf(n) <= Len(progress)
    /\ InFile => BatchOf(cur) = Len(progress)
    /\ InFile /\ pc # "validate" => Began(cur)
    /\ \A b \in 1..Len(progress) :
          /\ progress[b].size = Cardinality({ k \in 1..Len(files) : BatchOf(k) = b })
          /\ progress[b].size >= 1
          /\ progress[b].size <= batch_size
          /\ b < NumBatches(Len(files)) => progress[b].size = batch_size
    /\ pc = "done" => Len(began) = Len(files) /\ ended = 1..Len(files)

C13_Witness ==
    /\ pc = "done"
    /\ Len(files) = 2
    /\ batch_size = 1
    /\ began = <<1, 2>>
    /\ Len(progress) = 2

\* the projection of the metadata that order_by selects
Projection(ob, md) ==
    CASE ob = "artist" -> Artists(md)
      [] ob = "album" -> Albums(md)
      [] ob = "year" -> Years(md)

DefaultFolder(ob) ==
    CASE ob = "artist" -> S_Unknown_Artist
      [] ob = "album" -> S_Unknown_Album
      [] ob = "year" -> S_Unknown_Year

\* the '&'-join of the projection with the forbidden characters replaced and the
\* ends trimmed, or the default of the criterion when that is empty
ProjectionOrDefault(ob, md) ==
    LET joined == Strip([k \in 1..Len(Join(<<"&">>, Projection(ob, md))) |->
                            IF Join(<<"&">>, Projection(ob, md))[k] \in Forbidden
                            THEN "_"
                            ELSE Join(<<"&">>, Projection(ob, md))[k]])
    IN  IF joined = <<>> THEN DefaultFolder(ob) ELSE joined

\* C14: when the iteration of a file for which metadata was obtained has ended, a
\* folder was created for it, and it is the sanitized '&'-join of the projection
\* selected by order_by, or the default of the criterion when that is empty; it is
\* never the unsorted folder.
C14_IdentifiedFolderIsProjectionOrDefault ==
    FileEnded /\ ~metadata.is_none
        => /\ mkdirLog # <<>>
           /\ mkdirLog[Len(mkdirLog)].folder = ProjectionOrDefault(order_by, metadata)
           /\ mkdirLog[Len(mkdirLog)].folder # S_unsorted

\* a step in which the unlink of the source is tried and fails
UnlinkFailsInStep ==
    /\ Len(unlinkLog') = Len(unlinkLog) + 1
    /\ unlinkLog'[Len(unlinkLog')] = FALSE

\* C15, in every step: when the unlink of the source fails, the copy made in the same
\* step is at its destination, the source is still there, no exception has left the
\* run, and the loop over the results goes on with the next result (the placement of
\* an identified file goes on with the next file).
C15_Step ==
    UnlinkFailsInStep
        => /\ remove_origin
           /\ Len(copyLog') = Len(copyLog) + 1
           /\ copyLog'[Len(copyLog')].ok
           /\ copyLog'[Len(copyLog')].to \in dstFiles'
           /\ copied'[cur]
           /\ srcExists'[cur]
           /\ uncaught' = ""
           /\ pc' # "aborted"
           /\ \/ pc = "results" /\ pc' = "results" /\ r' = r + 1 /\ cur' = cur
              \/ pc = "place" /\ pc' = "next"

\* C15: with remove_origin set, a failure to delete the source after a successful
\* copy is only logged: the copy stays at the destination, no exception escapes, and
\* the run goes on with the remaining results and files.
C15_FailedUnlinkOnlyLogged == [][C15_Step]_vars

C15_Witness ==
    /\ pc = "results"
    /\ unlinkLog = <<FALSE>>
    /\ r = 2
    /\ Len(acoustid_result.results) = 2
    /\ srcExists[cur]
    /\ copied[cur]

\* C16: for every input string the output of escape_folder_name is not empty, neither
\* begins nor ends with a whitespace character, and contains no forbidden character.
C16_SanitizedNameIsClean ==
    san_pc = "returned"
        => /\ san_out # <<>>
           /\ san_out[1] \notin Whitespace
           /\ san_out[Len(san_out)] \notin Whitespace
           /\ \A k \in 1..Len(san_out) : san_out[k] \notin Forbidden

C16_Witness ==
    /\ san_pc = "returned"
    /\ san_name # <<>>
    /\ Head(san_name) \in Whitespace
    /\ \E k \in 1..Len(san_name) : san_name[k] \in Forbidden
    /\ san_out # S_unsorted

\* a copy into the unsorted folder has been tried for the current file
UnsortedCopyMade == \E k \in 1..Len(copyLog) : copyLog[k].to.folder = S_unsorted

\* C17: for the file being handled, a copy to the unsorted folder is made only if the
\* first result of the response lacks a recording list, and once that copy is made no
\* catalog lookup is made for the file.
C17_FirstResultDecides ==
    (InFile /\ UnsortedCopyMade)
        => /\ ~acoustid_result.results[1].has_recordings
           /\ mbCalls = <<>>

\* generate_fingerprint returned a pair with a fingerprint and a duration
BothReturned == ~fpResult.is_none /\ fpResult.fingerprint.has /\ fpResult.duration.has

\* ... and the fingerprint is not the empty string and the duration is not 0
BothUsable == BothReturned /\ fpResult.fingerprint.v # <<>> /\ fpResult.duration.v # 0

\* the order of the stages, which C18 states whatever the fingerprint is: the
\* acoustic lookup is made at most once and only after the fingerprinting of the
\* file has returned, and the catalog is asked only after the acoustic lookup has
\* returned a response with results
C18_Order ==
    InFile
        => /\ acCalls <= 1
           /\ acCalls = 1 => fpCalls[cur] = 1 /\ fpResult.why # "not run"
           /\ mbCalls # <<>> => acCalls = 1 /\ ~acoustid_result.is_none
           /\ pc \in {"validate", "fingerprint", "acoustid"} => acCalls = 0 /\ mbCalls = <<>>

\* C18 as stated: when the iteration of a file has ended, the acoustic lookup was
\* made exactly once if fingerprinting returned both a fingerprint and a duration, and
\* never otherwise; and the stages come in order.
C18_LookupIffBothReturned ==
    /\ C18_Order
    /\ FileEnded => acCalls = (IF BothReturned THEN 1 ELSE 0)

\* C18, amended: when the iteration of a file has ended, the acoustic lookup was made
\* exactly once if fingerprinting returned a non-empty fingerprint and a non-zero
\* duration, and never otherwise (an empty fingerprint or a duration of 0 ends the
\* file without a lookup); and the stages come in order.
C18_LookupIffBothUsable ==
    /\ C18_Order
    /\ FileEnded => acCalls = (IF BothUsable THEN 1 ELSE 0)

C18_Witness ==
    /\ pc = "next"
    /\ fpResult.fingerprint = Some(<<"A", "Q">>)
    /\ fpResult.duration = [has |-> TRUE, v |-> 0]
    /\ fpCalls[cur] = 1
    /\ acCalls = 0

\* the acoustic lookup was made and gave nothing to go through: no response, a
\* response without results, or an empty list of results
LookupGaveNothing ==
    /\ acCalls = 1
    /\ \/ acoustid_result.is_none
       \/ ~acoustid_result.has_results
       \/ acoustid_result.results = <<>>

\* the catalog was asked for the identifier of result r and returned nothing, and no
\* result before r lacks the recording list
StageTwoFailedFirst ==
    /\ mbCalls # <<>>
    /\ metadata.is_none
    /\ \A k \in 1..(r - 1) : acoustid_result.results[k].has_recordings

\* C19: when the iteration of a file has ended after an acoustic lookup that failed
\* or returned no results, or after a failed catalog lookup that no recording-less
\* result preceded, process_file has returned no metadata and raised nothing, no
\* folder was created, the file was copied nowhere and the source is still there.
C19_LookupFailureAbsorbed ==
    (FileEnded /\ (LookupGaveNothing \/ StageTwoFailedFirst))
        => /\ pc = "next"
           /\ uncaught = ""
           /\ metadata.is_none
           /\ mkdirLog = <<>>
           /\ copyLog = <<>>
           /\ unlinkLog = <<>>
           /\ ~copied[cur]
           /\ srcExists[cur]

C19_Witness ==
    /\ pc = "next"
    /\ remove_origin
    /\ StageTwoFailedFirst
    /\ r = 2
    /\ acoustid_result.results[1].recordings = <<>>
    /\ srcExists[cur]

\* C20: at most one copy is made for a file, whatever the results of the response
\* are: the unsorted copy at most once, and never both an unsorted and an identified
\* copy.
C20_AtMostOneCopyPerFile ==
    InFile => Cardinality(OkCopies) <= 1

====
